---- MODULE Spec2Model ----
(***************************************************************************)
(* Retry executor (WithRetry), error classifier (categorizeError,          *)
(* ParseError) and HTTP request/response client of pkg/openrouter.         *)
(*                                                                         *)
(* Durations are integers counted in ticks; Second is the number of ticks  *)
(* in one second.  An error value is a record                              *)
(*   [kind, retryable, retryAfter, class, id]                              *)
(* kind  : "nil" | "structured" (an OpenRouterError) | "plain" | "ctx"     *)
(* class : where the value was made; id : the invocation that made it      *)
(*         (Go compares error values by pointer identity).                 *)
(***************************************************************************)
EXTENDS Integers, Sequences, FiniteSets, TLC

\* ------------------------------------------------------------------------
\* Bounds of the model
\* ------------------------------------------------------------------------
Second == 2

MaxMaxRetries == 2

NegRetries == 2

FnRetryAfter == 7

\* ------------------------------------------------------------------------
\* Small helpers
\* ------------------------------------------------------------------------
Max(a, b) == IF a >= b THEN a ELSE b

Min(a, b) == IF a <= b THEN a ELSE b

RECURSIVE Pow(_, _)
\* math.Pow on the integer factors and attempt numbers of the model
Pow(b, e) == IF e <= 0 \/ b = 1 THEN 1 ELSE b * Pow(b, e - 1)

\* ------------------------------------------------------------------------
\* Error values
\* ------------------------------------------------------------------------
NilErr == [kind |-> "nil", retryable |-> FALSE, retryAfter |-> 0, class |-> "none", id |-> 0]

\* &OpenRouterError{IsRetryable: r, RetryAfter: ra}
OpenRouterError(r, ra, cls) ==
  [kind |-> "structured", retryable |-> r, retryAfter |-> ra, class |-> cls, id |-> 0]

\* fmt.Errorf(...): an error that is not an *OpenRouterError
PlainErr(cls) ==
  [kind |-> "plain", retryable |-> FALSE, retryAfter |-> 0, class |-> cls, id |-> 0]

\* ctx.Err() of a done context: context.Canceled or context.DeadlineExceeded
CtxErrValue(e) ==
  [kind |-> "ctx", retryable |-> FALSE, retryAfter |-> 0, class |-> e, id |-> 0]

\* ------------------------------------------------------------------------
\* strings.ToLower, strings.Contains and strconv.Atoi on the strings of the
\* model
\* ------------------------------------------------------------------------
ErrorTypes == {"", "invalid_request_error", "server_error", "insufficient_quota",
               "model_overloaded", "model_unavailable", "Model_Overloaded",
               "INSUFFICIENT_QUOTA"}

ErrorCodes == {"", "invalid_request_error", "model_not_found",
               "context_length_exceeded", "insufficient_credits", "credit_limit",
               "low_balance", "rate_limit_exceeded", "MODEL_NOT_FOUND",
               "Invalid_Request_Error"}

ToLower(s) ==
  CASE s = "Model_Overloaded" -> "model_overloaded"
    [] s = "INSUFFICIENT_QUOTA" -> "insufficient_quota"
    [] s = "MODEL_NOT_FOUND" -> "model_not_found"
    [] s = "Invalid_Request_Error" -> "invalid_request_error"
    [] s = "Authorization" -> "authorization"
    [] s = "Content-Type" -> "content-type"
    [] s = "Http-Referer" -> "http-referer"
    [] s = "X-Title" -> "x-title"
    [] OTHER -> s

\* strings.Contains(s, sub) for the lower-cased codes and the four substrings
\* the classifier looks for
Contains(s, sub) ==
  CASE sub = "insufficient" -> s \in {"insufficient_credits", "insufficient_quota"}
    [] sub = "credit" -> s \in {"insufficient_credits", "credit_limit"}
    [] sub = "balance" -> s \in {"low_balance"}
    [] sub = "model" -> s \in {"model_not_found", "model_overloaded", "model_unavailable"}
    [] OTHER -> FALSE

RetryAfterHeaders == {"", "5", "60", "0", "-5", "soon"}

\* strconv.Atoi: [ok, val]
Atoi(s) ==
  CASE s = "5" -> [ok |-> TRUE, val |-> 5]
    [] s = "60" -> [ok |-> TRUE, val |-> 60]
    [] s = "0" -> [ok |-> TRUE, val |-> 0]
    [] s = "-5" -> [ok |-> TRUE, val |-> 0 - 5]
    [] OTHER -> [ok |-> FALSE, val |-> 0]

\* ------------------------------------------------------------------------
\* categorizeError: (statusCode, errorCode, errorType, Retry-After header)
\* -> (isRetryable, userMessage, retryAfter).  StatusTable is the switch on
\* the status code; categorizeError applies the error-type switch to it.
\* ------------------------------------------------------------------------
Triple(r, msg, ra) == [isRetryable |-> r, userMessage |-> msg, retryAfter |-> ra]

StatusTable(statusCode, errorCode, retryAfterStr) ==
  LET code == ToLower(errorCode)
  IN
  CASE statusCode = 401 ->
         Triple(FALSE, "Authentication failed. Please check your OpenRouter API key.", 0)
    [] statusCode = 403 ->
         IF Contains(code, "insufficient") \/ Contains(code, "credit")
            \/ Contains(code, "balance")
         THEN Triple(FALSE, "Insufficient credits. Please add credits to your OpenRouter account.", 0)
         ELSE Triple(FALSE, "Access forbidden. Please check your API permissions.", 0)
    [] statusCode = 404 ->
         IF Contains(code, "model")
         THEN Triple(FALSE, "The requested AI model is not available. Please try a different model.", 0)
         ELSE Triple(FALSE, "The requested resource was not found.", 0)
    [] statusCode = 429 ->
         LET parsed == IF retryAfterStr # "" /\ Atoi(retryAfterStr).ok
                       THEN Atoi(retryAfterStr).val * Second
                       ELSE 0
         IN  Triple(TRUE, "Rate limit exceeded. Please wait a moment before trying again.",
                    IF parsed = 0 THEN 60 * Second ELSE parsed)
    [] statusCode = 400 ->
         Triple(FALSE,
                CASE code = "invalid_request_error" ->
                       "Invalid request. Please check your input parameters."
                  [] code = "model_not_found" ->
                       "The specified AI model was not found. Please check the model name."
                  [] code = "context_length_exceeded" ->
                       "Your message is too long. Please try with a shorter message."
                  [] OTHER -> "Bad request. Please check your input and try again.",
                0)
    [] statusCode = 500 ->
         Triple(TRUE, "OpenRouter service is temporarily unavailable. Please try again in a few moments.", 0)
    [] statusCode = 502 ->
         Triple(TRUE, "OpenRouter gateway error. Please try again in a few moments.", 0)
    [] statusCode = 503 ->
         Triple(TRUE, "OpenRouter service is temporarily unavailable. Please try again later.",
                30 * Second)
    [] statusCode = 504 ->
         Triple(TRUE, "Request timed out. Please try again.", 0)
    [] OTHER ->
         IF statusCode >= 500
         THEN Triple(TRUE, "OpenRouter service error. Please try again later.", 0)
         ELSE IF statusCode >= 400
         THEN Triple(FALSE, "Request error. Please check your input and try again.", 0)
         ELSE Triple(FALSE, "An unexpected error occurred.", 0)

\* Variant: the error type is compared without lower-casing it
TypeOverride_CaseSensitive(base, errorType) ==
  CASE errorType = "insufficient_quota" ->
         Triple(FALSE, "Insufficient quota. Please check your OpenRouter account limits.",
                base.retryAfter)
    [] errorType = "model_overloaded" ->
         Triple(TRUE, "The AI model is currently overloaded. Please try again in a few moments.",
                30 * Second)
    [] errorType = "model_unavailable" ->
         Triple(TRUE, "The AI model is temporarily unavailable. Please try a different model or wait a few moments.",
                60 * Second)
    [] OTHER -> base

\* Variant: a delay already set by the status table (Retry-After header) is
\* kept by the model_overloaded / model_unavailable cases
TypeOverride_KeepTableDelay(base, errorType) ==
  LET t == ToLower(errorType)
  IN  CASE t = "insufficient_quota" ->
             Triple(FALSE, "Insufficient quota. Please check your OpenRouter account limits.",
                    base.retryAfter)
        [] t = "model_overloaded" ->
             Triple(TRUE, "The AI model is currently overloaded. Please try again in a few moments.",
                    IF base.retryAfter > 0 THEN base.retryAfter ELSE 30 * Second)
        [] t = "model_unavailable" ->
             Triple(TRUE, "The AI model is temporarily unavailable. Please try a different model or wait a few moments.",
                    IF base.retryAfter > 0 THEN base.retryAfter ELSE 60 * Second)
        [] OTHER -> base

\* The switch on strings.ToLower(errorType), applied to the triple the status
\* table produced
TypeOverride(base, errorType) ==
  LET t == ToLower(errorType)
  IN  CASE t = "insufficient_quota" ->
             Triple(FALSE, "Insufficient quota. Please check your OpenRouter account limits.",
                    base.retryAfter)
        [] t = "model_overloaded" ->
             Triple(TRUE, "The AI model is currently overloaded. Please try again in a few moments.",
                    30 * Second)
        [] t = "model_unavailable" ->
             Triple(TRUE, "The AI model is temporarily unavailable. Please try a different model or wait a few moments.",
                    60 * Second)
        [] OTHER -> base

\* Variant: the case for 503 does not set its fixed delay
categorizeError_No503Delay(statusCode, errorCode, errorType, retryAfterStr) ==
  LET base == StatusTable(statusCode, errorCode, retryAfterStr)
  IN  TypeOverride(IF statusCode = 503 THEN [base EXCEPT !.retryAfter = 0] ELSE base,
                   errorType)

\* Variant: no message for a status code below 400
categorizeError_NoUnexpectedMessage(statusCode, errorCode, errorType, retryAfterStr) ==
  LET base == StatusTable(statusCode, errorCode, retryAfterStr)
  IN  TypeOverride(IF statusCode < 400 THEN [base EXCEPT !.userMessage = ""] ELSE base,
                   errorType)

\* Variant: a status code of the default case is retryable from 400 on
categorizeError_DefaultRetryableFrom400(statusCode, errorCode, errorType, retryAfterStr) ==
  LET base == StatusTable(statusCode, errorCode, retryAfterStr)
  IN  TypeOverride(IF statusCode \notin {400, 401, 403, 404, 429, 500, 502, 503, 504}
                   THEN [base EXCEPT !.isRetryable = statusCode >= 400]
                   ELSE base,
                   errorType)

\* Variant: the Retry-After header is also read for status 503
categorizeError_HeaderAt503(statusCode, errorCode, errorType, retryAfterStr) ==
  LET base == StatusTable(statusCode, errorCode, retryAfterStr)
  IN  TypeOverride(IF statusCode = 503 /\ retryAfterStr # "" /\ Atoi(retryAfterStr).ok
                   THEN [base EXCEPT !.retryAfter = Atoi(retryAfterStr).val * Second]
                   ELSE base,
                   errorType)

categorizeError(statusCode, errorCode, errorType, retryAfterStr) ==
  TypeOverride(StatusTable(statusCode, errorCode, retryAfterStr), errorType)

\* ------------------------------------------------------------------------
\* HTTP responses.  A body is
\*   [asError  : json.Unmarshal(body, &ErrorResponse{}) succeeds,
\*    asResult : json.Unmarshal(body, result) succeeds,
\*    code, message, type : the envelope's error.code, .message and .type,
\*    raw : string(body), "" for an empty body]
\* ------------------------------------------------------------------------
Body(asError, asResult, code, message, type) ==
  [asError |-> asError, asResult |-> asResult, code |-> code,
   message |-> message, type |-> type,
   raw |-> IF asError THEN "{json}" ELSE "plain text"]

Response(status, retryAfterStr, body) ==
  [status |-> status, retryAfter |-> retryAfterStr, body |-> body]

TextBody == Body(FALSE, FALSE, "", "", "")

\* A body of length 0
EmptyBody == [TextBody EXCEPT !.raw = ""]

\* The responses the transport of the model can deliver
Responses ==
  { Response(200, "", Body(TRUE, TRUE, "", "", "")),
    Response(200, "", TextBody),
    Response(400, "", Body(TRUE, TRUE, "invalid_request_error", "m", "invalid_request_error")),
    Response(401, "", TextBody),
    Response(429, "5", Body(TRUE, TRUE, "rate_limit_exceeded", "m", "")),
    Response(429, "-5", Body(TRUE, TRUE, "rate_limit_exceeded", "m", "")),
    Response(429, "60", Body(TRUE, TRUE, "", "m", "INSUFFICIENT_QUOTA")),
    Response(500, "", Body(TRUE, TRUE, "", "m", "server_error")),
    Response(403, "", Body(TRUE, TRUE, "insufficient_credits", "m", "Model_Overloaded")) }

\* http.StatusText for the status codes of the model ("" for an unknown code)
StatusText(statusCode) ==
  CASE statusCode = 200 -> "OK"
    [] statusCode = 400 -> "Bad Request"
    [] statusCode = 401 -> "Unauthorized"
    [] statusCode = 403 -> "Forbidden"
    [] statusCode = 404 -> "Not Found"
    [] statusCode = 418 -> "I'm a teapot"
    [] statusCode = 429 -> "Too Many Requests"
    [] statusCode = 500 -> "Internal Server Error"
    [] statusCode = 502 -> "Bad Gateway"
    [] statusCode = 503 -> "Service Unavailable"
    [] statusCode = 504 -> "Gateway Timeout"
    [] OTHER -> ""

\* The fields of an OpenRouterError
StructuredError(statusCode, errorCode, errorType, message, c, cause) ==
  [StatusCode |-> statusCode, ErrorCode |-> errorCode, ErrorType |-> errorType,
   Message |-> message, UserMessage |-> c.userMessage,
   IsRetryable |-> c.isRetryable, RetryAfter |-> c.retryAfter,
   OriginalErr |-> cause]

\* Variant: the classifier is called before the envelope's code and type are
\* copied into the error
ParseError_ClassifyEarly(resp) ==
  LET hasMsg == resp.body.asError /\ resp.body.message # ""
      errorCode == IF hasMsg THEN resp.body.code ELSE ""
      errorType == IF hasMsg THEN resp.body.type ELSE ""
      message == IF hasMsg THEN resp.body.message
                 ELSE IF resp.body.raw # "" THEN resp.body.raw
                 ELSE StatusText(resp.status)
      c == categorizeError(resp.status, "", "", resp.retryAfter)
  IN  StructuredError(resp.status, errorCode, errorType, message, c, "none")

\* Variant: the envelope's code and type are kept whenever the body decodes,
\* with or without a message
ParseError_KeepCodeAndType(resp) ==
  LET hasMsg == resp.body.asError /\ resp.body.message # ""
      errorCode == IF resp.body.asError THEN resp.body.code ELSE ""
      errorType == IF resp.body.asError THEN resp.body.type ELSE ""
      message == IF hasMsg THEN resp.body.message
                 ELSE IF resp.body.raw # "" THEN resp.body.raw
                 ELSE StatusText(resp.status)
      c == categorizeError(resp.status, errorCode, errorType, resp.retryAfter)
  IN  StructuredError(resp.status, errorCode, errorType, message, c, "none")

\* ParseError: the envelope's code, type and message are kept only with a
\* non-empty message, otherwise the message is the raw body or the status
\* text; the classifier then fills isRetryable, userMessage and retryAfter
ParseError(resp) ==
  LET hasMsg == resp.body.asError /\ resp.body.message # ""
      errorCode == IF hasMsg THEN resp.body.code ELSE ""
      errorType == IF hasMsg THEN resp.body.type ELSE ""
      message == IF hasMsg THEN resp.body.message
                 ELSE IF resp.body.raw # "" THEN resp.body.raw
                 ELSE StatusText(resp.status)
      c == categorizeError(resp.status, errorCode, errorType, resp.retryAfter)
  IN  StructuredError(resp.status, errorCode, errorType, message, c, "none")

\* Variant: a network error is not retryable
WrapNetworkError_NotRetryable(cause) ==
  StructuredError(0, "network_error", "network_error", cause,
                  Triple(FALSE, "Network error occurred. Please check your internet connection and try again.", 0),
                  cause)

\* WrapNetworkError(err)
WrapNetworkError(cause) ==
  StructuredError(0, "network_error", "network_error", cause,
                  Triple(TRUE, "Network error occurred. Please check your internet connection and try again.", 0),
                  cause)

\* Variant: every cause but a cancellation is retryable
WrapContextError_AllButCanceled(cause) ==
  StructuredError(0, "context_error", "context_error", cause,
                  Triple(cause # "Canceled",
                         IF cause # "Canceled"
                         THEN "Request timed out. Please try again."
                         ELSE "Request was cancelled.",
                         0),
                  cause)

\* WrapContextError(err): err == context.DeadlineExceeded compares the
\* error value itself, so an error that wraps the deadline error is not it
WrapContextError(cause) ==
  StructuredError(0, "context_error", "context_error", cause,
                  Triple(cause = "DeadlineExceeded",
                         IF cause = "DeadlineExceeded"
                         THEN "Request timed out. Please try again."
                         ELSE "Request was cancelled.",
                         0),
                  cause)

\* Variant: an error that is not structured counts as retryable
IsRetryableError_PlainToo(e) ==
  IF e.kind = "structured" THEN e.retryable ELSE e.kind = "plain"

\* IsRetryableError(err): the type assertion fails for nil and for an error
\* that is not an OpenRouterError
IsRetryableError(e) ==
  IF e.kind = "structured" THEN e.retryable ELSE FALSE

\* The error value of the retry executor for an OpenRouterError e
AsError(e, cls) == OpenRouterError(e.IsRetryable, e.RetryAfter, cls)

\* ------------------------------------------------------------------------
\* Requests and their validation
\* ------------------------------------------------------------------------
Msg(role, content) == [Role |-> role, Content |-> content]

ChatReq(model, messages) == [Model |-> model, Messages |-> messages]

ImageReq(prompt, model, n) == [Prompt |-> prompt, Model |-> model, N |-> n]

ChatRequests ==
  { ChatReq("m1", <<Msg("user", "hi")>>),
    ChatReq("", <<Msg("user", "hi")>>),
    ChatReq("m1", <<>>),
    ChatReq("m1", <<Msg("user", "hi"), Msg("", "again")>>),
    ChatReq("m1", <<Msg("user", "")>>) }

ImageRequests ==
  { ImageReq("a cat", "img1", 1),
    ImageReq("", "img1", 1),
    ImageReq("a cat", "", 0),
    ImageReq("a cat", "img1", 0 - 1) }

\* Variant: the content of the messages is not checked
ValidateChat_NoContentCheck(r) ==
  /\ r.Model # ""
  /\ Len(r.Messages) # 0
  /\ \A i \in 1..Len(r.Messages) : r.Messages[i].Role # ""

\* ChatCompletionRequest.Validate: TRUE when it returns nil
ValidateChat(r) ==
  /\ r.Model # ""
  /\ Len(r.Messages) # 0
  /\ \A i \in 1..Len(r.Messages) :
       r.Messages[i].Role # "" /\ r.Messages[i].Content # ""

\* ImageRequest.Validate: TRUE when it returns nil
ValidateImage(r) ==
  /\ r.Prompt # ""
  /\ r.Model # ""
  /\ ~(r.N < 0)

\* ------------------------------------------------------------------------
\* The client call.  A transport result is the outcome of httpClient.Do
\* followed by io.ReadAll:
\*   [t |-> "neterr"]  the transport failed before any response
\*   [t |-> "ctxerr"]  the transport failed because the context is done
\*   [t |-> "readerr"] the body could not be read
\*   [t |-> "resp", resp |-> r]
\* ------------------------------------------------------------------------
NoResponse == Response(0, "", TextBody)

Transport(t, resp) == [t |-> t, resp |-> resp]

\* What the transport can do when the context error is ctx ("none" if live)
TransportResults(ctx) ==
  {Transport("neterr", NoResponse), Transport("readerr", NoResponse)}
  \cup {Transport("resp", r) : r \in Responses}
  \cup (IF ctx # "none" THEN {Transport("ctxerr", NoResponse)} ELSE {})

\* doRequest(req, result): the error it returns
doRequest(tr, hasResult) ==
  IF tr.t = "neterr" THEN PlainErr("network")
  ELSE IF tr.t = "ctxerr" THEN PlainErr("cancel")
  ELSE IF tr.t = "readerr" THEN PlainErr("read")
  ELSE IF tr.resp.status >= 400
       THEN IF ~tr.resp.body.asError
            THEN PlainErr("http")
            ELSE AsError(ParseError(tr.resp), "api")
       ELSE IF hasResult /\ ~tr.resp.body.asResult
            THEN PlainErr("decode")
            ELSE NilErr

\* Variant: a response with a status of 500 or more makes the method send
\* the request a second time
ClientCall_ResendOnServerError(o, tr) ==
  LET valid == CASE o.kind = "chat" -> ValidateChat(o.req)
                 [] o.kind = "image" -> ValidateImage(o.req)
                 [] OTHER -> TRUE
      err == doRequest(tr, o.kind # "ping")
  IN  IF ~valid THEN [err |-> PlainErr("validation"), sent |-> 0, hasResp |-> FALSE]
      ELSE IF ~o.urlOk THEN [err |-> PlainErr("build"), sent |-> 0, hasResp |-> FALSE]
      ELSE [err |-> err,
            sent |-> IF tr.t = "resp" /\ tr.resp.status >= 500 THEN 2 ELSE 1,
            hasResp |-> err.kind = "nil" /\ o.kind # "ping"]

\* CreateChatCompletion, CreateImage, ListModels, GetModel and Ping:
\* [err, sent, hasResp] where sent is the number of HTTP requests handed to
\* the transport and hasResp says that the response pointer returned is not
\* nil (Ping returns no response and decodes no result)
ClientCall(o, tr) ==
  LET valid == CASE o.kind = "chat" -> ValidateChat(o.req)
                 [] o.kind = "image" -> ValidateImage(o.req)
                 [] OTHER -> TRUE
      err == doRequest(tr, o.kind # "ping")
  IN  IF ~valid THEN [err |-> PlainErr("validation"), sent |-> 0, hasResp |-> FALSE]
      ELSE IF ~o.urlOk THEN [err |-> PlainErr("build"), sent |-> 0, hasResp |-> FALSE]
      ELSE [err |-> err, sent |-> 1, hasResp |-> err.kind = "nil" /\ o.kind # "ping"]

\* ------------------------------------------------------------------------
\* Retry policies
\* ------------------------------------------------------------------------
RetryConfig(maxRetries, baseDelay, maxDelay, factor, jitter) ==
  [isNil |-> FALSE, MaxRetries |-> maxRetries, BaseDelay |-> baseDelay,
   MaxDelay |-> maxDelay, BackoffFactor |-> factor, JitterEnabled |-> jitter]

\* A nil *RetryConfig
NilConfig ==
  [isNil |-> TRUE, MaxRetries |-> 0, BaseDelay |-> 0, MaxDelay |-> 0,
   BackoffFactor |-> 0, JitterEnabled |-> FALSE]

\* Variant: the default policy allows two retries
DefaultRetryConfig_TwoRetries == RetryConfig(2, 1 * Second, 30 * Second, 2, TRUE)

\* DefaultRetryConfig()
DefaultRetryConfig == RetryConfig(3, 1 * Second, 30 * Second, 2, TRUE)

Policies ==
  {RetryConfig(m, 4, 6, 2, FALSE) : m \in (0 - NegRetries)..MaxMaxRetries}
  \cup {RetryConfig(m, 5, 8, 2, TRUE) : m \in 1..MaxMaxRetries}
  \cup {RetryConfig(1, 0, 0, 1, FALSE)}

\* The integers time.Duration(delay + jitter) can be, jitter in
\* [-delay/10, delay/10)
JitterRange(delay) ==
  IF delay <= 0 THEN {delay}
  ELSE ((9 * delay) \div 10)..(((11 * delay + 9) \div 10) - 1)

\* math.Pow overflows to +Inf when the power exceeds the largest float64,
\* which lies just below 2^FloatMaxExp
FloatMaxExp == 1024

\* floor(log2(b)) for b >= 1
RECURSIVE Log2(_)
Log2(b) == IF b <= 1 THEN 0 ELSE 1 + Log2(b \div 2)

\* math.Pow(b, e) is +Inf (exact when b is a power of two, as the factors of
\* the model are)
PowIsInf(b, e) == b >= 2 /\ e * Log2(b) >= FloatMaxExp

\* The most negative time.Duration (stands for -2^63 ns)
MinDuration == 0 - Pow(2, 20)

\* time.Duration(x) for a float64 x that is NaN: the Go specification leaves
\* the result to the implementation (the smallest int64 on amd64, 0 on arm64)
DurationOfNaN == {MinDuration, 0}

\* calculateDelay(attempt, config): the set of durations it can return.
\* float64(BaseDelay) * math.Pow(BackoffFactor, attempt) is NaN for 0 * +Inf,
\* and NaN > float64(MaxDelay) is false, so that NaN is what is converted
calculateDelay(a, cfg) ==
  IF PowIsInf(cfg.BackoffFactor, a)
  THEN IF cfg.BaseDelay = 0 THEN DurationOfNaN
       ELSE IF cfg.BaseDelay > 0
       THEN IF cfg.JitterEnabled THEN JitterRange(cfg.MaxDelay) ELSE {cfg.MaxDelay}
       ELSE {MinDuration}
  ELSE LET raw == cfg.BaseDelay * Pow(cfg.BackoffFactor, a)
           delay == IF raw > cfg.MaxDelay THEN cfg.MaxDelay ELSE raw
       IN  IF cfg.JitterEnabled THEN JitterRange(delay) ELSE {delay}

\* ------------------------------------------------------------------------
\* WithRetry(ctx, config, logger, fn): one call as a state machine
\* ------------------------------------------------------------------------
VARIABLES
  pc,          \* "entry" | "loop" | "running" | "select" | "parked" | "done"
  config,      \* the *RetryConfig argument, resolved by Begin
  op,          \* fn: an arbitrary closure, or a closure around a client call
  ctxErr,      \* ctx.Err(): "none" | "Canceled" | "DeadlineExceeded"
  attempt,     \* the loop counter
  lastErr,     \* var lastErr error
  result,      \* the value WithRetry returned (when pc = "done")
  history,     \* the values fn returned, in invocation order
  started,     \* number of invocations of fn begun
  waits,       \* the waits begun: [kind, dur, attempt, end]
  timerFired,  \* the channel of the current time.After has a value
  requests,    \* HTTP requests handed to the transport by fn
  other,       \* the locals of a second WithRetry call while it is not running
  input,       \* the arguments of a call of one of the pure functions
  output,      \* what that call returned
  client,      \* the fields of the Client the goroutines share
  threads      \* the goroutines running Client methods: [m, i, last]

vars == <<pc, config, op, ctxErr, attempt, lastErr, result, history, started,
          waits, timerFired, requests, other, input, output, client, threads>>

\* No second call, no function call
NoCall == [pc |-> "none"]

NoInput == [fn |-> "none"]

NoOutput == [fn |-> "none"]

\* The fields of a Client
ClientFields(siteURL, siteName, logger) ==
  [apiKey |-> "key", baseURL |-> "https://openrouter.ai/api/v1", httpClient |-> "http",
   siteURL |-> siteURL, siteName |-> siteName, logger |-> logger]

\* NewClient(apiKey)
NewClient == ClientFields("", "", "logger1")

\* No goroutine runs a Client method
NoThreads == <<>>

FnOp == [kind |-> "fn", req |-> <<>>, urlOk |-> TRUE]

Ops ==
  {FnOp}
  \cup {[kind |-> "chat", req |-> r, urlOk |-> TRUE] : r \in ChatRequests}
  \cup {[kind |-> "image", req |-> r, urlOk |-> TRUE] : r \in ImageRequests}
  \cup {[kind |-> "chat", req |-> ChatReq("m1", <<Msg("user", "hi")>>), urlOk |-> FALSE]}

\* What an arbitrary closure can return
FnOutcomes ==
  {NilErr, PlainErr("other")}
  \cup {OpenRouterError(r, ra, "fn") : r \in BOOLEAN, ra \in {0, FnRetryAfter}}

CtxStates == {"none", "Canceled", "DeadlineExceeded"}

Init ==
  /\ client = NewClient
  /\ threads = NoThreads
  /\ pc = "entry"
  /\ config \in Policies \cup {NilConfig}
  /\ op \in Ops
  /\ ctxErr \in CtxStates
  /\ attempt = 0
  /\ lastErr = NilErr
  /\ result = NilErr
  /\ history = <<>>
  /\ started = 0
  /\ waits = <<>>
  /\ timerFired = FALSE
  /\ requests = 0
  /\ other = NoCall
  /\ input = NoInput
  /\ output = NoOutput

\* Variant: the loop stops one attempt early (attempt < config.MaxRetries)
LoopCond_Strict(a, cfg) == a < cfg.MaxRetries

\* for attempt := 0; attempt <= config.MaxRetries; ...
LoopCond(a, cfg) == a <= cfg.MaxRetries

\* Variant: the break is taken one attempt early
IsLastAttempt_OffByOne(a, cfg) == a + 1 = cfg.MaxRetries

\* if attempt == config.MaxRetries { break }
IsLastAttempt(a, cfg) == a = cfg.MaxRetries

\* Variant: the server-suggested delay is honoured before the retryability
\* check
IsNonRetryable_AfterRetryAfter(err) ==
  err.kind = "structured" /\ ~err.retryable /\ ~(err.retryAfter > 0)

\* Variant: an error that is not an OpenRouterError is not retried either
IsNonRetryable_PlainToo(err) ==
  err.kind = "plain" \/ (err.kind = "structured" /\ ~err.retryable)

\* if orErr, ok := err.(*OpenRouterError); ok { if !orErr.IsRetryable { return err } }
IsNonRetryable(err) == err.kind = "structured" /\ ~err.retryable

\* if orErr, ok := ...; ok { ... if orErr.RetryAfter > 0 { ... } }
UsesRetryAfter(err) == err.kind = "structured" /\ err.retryAfter > 0

\* Variant: the counter is not advanced after a wait
NextAttempt_Stuck(a) == a

\* the post statement of the loop: attempt++
NextAttempt(a) == a + 1

\* Variant: the last failure is returned when the context is done
CtxCase_LastErr(e, last) == last

\* case <-ctx.Done(): return ctx.Err()
CtxCase(e, last) == CtxErrValue(e)

\* Variant: the server-suggested wait is capped by config.MaxDelay
RetryAfterWait_Capped(err, cfg) == Min(err.retryAfter, cfg.MaxDelay)

\* Variant: the server-suggested wait is lengthened by a tenth, as the
\* largest jitter would
RetryAfterWait_Jittered(err, cfg) == err.retryAfter + (err.retryAfter \div 10)

\* case <-time.After(orErr.RetryAfter): the duration of the server-suggested
\* wait
RetryAfterWait(err, cfg) == err.retryAfter

\* The last wait ends the way how: "timer", "ctx" (the context was done when
\* the select was evaluated) or "ctx_blocked" (the context became done while
\* the goroutine was blocked in the select)
EndWait(how) ==
  waits' = [waits EXCEPT ![Len(waits)].end = how]

\* return x
Return(x) ==
  /\ pc' = "done"
  /\ result' = x

\* select { case <-ctx.Done(): ...; case <-time.After(d): ... } is entered
StartWait(kind, d) ==
  /\ pc' = "select"
  /\ waits' = Append(waits, [kind |-> kind, dur |-> d, attempt |-> attempt,
                              end |-> "pending"])
  /\ timerFired' = FALSE
  /\ UNCHANGED result

\* if config == nil { config = DefaultRetryConfig() }; var lastErr error
Begin ==
  /\ pc = "entry"
  /\ config' = IF config.isNil THEN DefaultRetryConfig ELSE config
  /\ pc' = "loop"
  /\ UNCHANGED <<client, threads, other, input, output, op, ctxErr, attempt, lastErr, result, history, started, waits,
                 timerFired, requests>>

\* The loop condition holds: fn() is called
StartAttempt ==
  /\ pc = "loop"
  /\ LoopCond(attempt, config)
  /\ pc' = "running"
  /\ started' = started + 1
  /\ UNCHANGED <<client, threads, other, input, output, config, op, ctxErr, attempt, lastErr, result, history, waits,
                 timerFired, requests>>

\* The loop condition fails: return lastErr (after the loop)
Exhausted ==
  /\ pc = "loop"
  /\ ~LoopCond(attempt, config)
  /\ Return(lastErr)
  /\ UNCHANGED <<client, threads, other, input, output, config, op, ctxErr, attempt, lastErr, history, started, waits,
                 timerFired, requests>>

\* fn() returned e: the loop body up to its return, break or select
AfterReturn(e) ==
  LET err == IF e.kind = "nil" THEN e ELSE [e EXCEPT !.id = Len(history) + 1]
  IN  /\ history' = Append(history, err)
      /\ IF err.kind = "nil"
         THEN /\ Return(NilErr)
              /\ UNCHANGED <<lastErr, waits, timerFired>>
         ELSE /\ lastErr' = err
              /\ IF IsLastAttempt(attempt, config)
                 THEN Return(err) /\ UNCHANGED <<waits, timerFired>>
                 ELSE IF IsNonRetryable(err)
                 THEN Return(err) /\ UNCHANGED <<waits, timerFired>>
                 ELSE IF UsesRetryAfter(err)
                 THEN StartWait("retryAfter", RetryAfterWait(err, config))
                 ELSE \E d \in calculateDelay(attempt, config) :
                        StartWait("backoff", d)
      /\ UNCHANGED <<client, threads, other, input, output, config, op, ctxErr, attempt, started>>

\* An arbitrary closure returns
FnReturns ==
  /\ pc = "running"
  /\ op.kind = "fn"
  /\ \E e \in FnOutcomes : AfterReturn(e)
  /\ UNCHANGED requests

\* A closure around CreateChatCompletion or CreateImage returns
ClientReturns ==
  /\ pc = "running"
  /\ op.kind # "fn"
  /\ \E tr \in TransportResults(ctxErr) :
       LET c == ClientCall(op, tr)
       IN  /\ AfterReturn(c.err)
           /\ requests' = requests + c.sent

\* The select is evaluated: a ready case is taken (either one when both are
\* ready), otherwise the goroutine blocks
SelectPoll ==
  /\ pc = "select"
  /\ \/ /\ ctxErr # "none"
        /\ Return(CtxCase(ctxErr, lastErr))
        /\ EndWait("ctx")
        /\ UNCHANGED attempt
     \/ /\ timerFired
        /\ pc' = "loop"
        /\ attempt' = NextAttempt(attempt)
        /\ EndWait("timer")
        /\ UNCHANGED result
     \/ /\ ctxErr = "none" /\ ~timerFired
        /\ pc' = "parked"
        /\ UNCHANGED <<attempt, result, waits>>
  /\ UNCHANGED <<client, threads, other, input, output, config, op, ctxErr, lastErr, history, started, timerFired,
                 requests>>

\* Variant: a goroutine blocked in the select is not woken by the timer
TimerFires_Lost ==
  /\ pc \in {"select", "parked"}
  /\ ~timerFired
  /\ timerFired' = TRUE
  /\ UNCHANGED <<pc, attempt, waits>>
  /\ UNCHANGED <<client, threads, other, input, output, config, op, ctxErr, lastErr, result, history, started,
                 requests>>

\* The timer of time.After(d) fires; a goroutine blocked in the select takes
\* the timer case and the loop continues with attempt++
TimerFires ==
  /\ pc \in {"select", "parked"}
  /\ ~timerFired
  /\ timerFired' = TRUE
  /\ IF pc = "parked"
     THEN pc' = "loop" /\ attempt' = NextAttempt(attempt) /\ EndWait("timer")
     ELSE UNCHANGED <<pc, attempt, waits>>
  /\ UNCHANGED <<client, threads, other, input, output, config, op, ctxErr, lastErr, result, history, started,
                 requests>>

\* The caller cancels the context or its deadline expires; a goroutine
\* blocked in the select takes the ctx.Done() case and returns ctx.Err()
Cancel ==
  /\ pc # "done"
  /\ ctxErr = "none"
  /\ \E e \in {"Canceled", "DeadlineExceeded"} :
       /\ ctxErr' = e
       /\ IF pc = "parked"
          THEN Return(CtxCase(e, lastErr)) /\ EndWait("ctx_blocked")
          ELSE UNCHANGED <<pc, result, waits>>
  /\ UNCHANGED <<client, threads, other, input, output, config, op, attempt, lastErr, history, started, timerFired,
                 requests>>

Next ==
  \/ Begin
  \/ StartAttempt
  \/ Exhausted
  \/ FnReturns
  \/ ClientReturns
  \/ SelectPoll
  \/ TimerFires
  \/ Cancel

Spec == Init /\ [][Next]_vars

\* ------------------------------------------------------------------------
\* Properties of WithRetry
\* ------------------------------------------------------------------------
Calls == Len(history)

\* A failure WithRetry retries: a retryable structured error or an error that
\* is not structured
RetryableFailure(e) ==
  (e.kind = "structured" /\ e.retryable) \/ e.kind = "plain"

\* C1 (as stated): once the policy is resolved, the operation is invoked at
\* most 1 + maxRetries times, and an invocation starts only after every
\* earlier one has returned.
C1_AtMostOnePlusMaxRetries ==
  pc # "entry" =>
    /\ started <= 1 + config.MaxRetries
    /\ started - Calls \in {0, 1}

\* C1 (amended): the operation is invoked at most max(0, 1 + maxRetries)
\* times, and invocation n+1 starts only when the results of invocations 1..n
\* are known.
C1_BoundedSequential ==
  /\ [](pc # "entry" => started <= Max(0, 1 + config.MaxRetries))
  /\ [](started - Calls \in {0, 1} /\ (started - Calls = 1 <=> pc = "running"))
  /\ [][started' # started => (started' = started + 1 /\ Calls = started)]_vars

C1_Witness ==
  /\ pc = "done"
  /\ config.MaxRetries = 2
  /\ started = 3
  /\ Calls = 3

\* C2: when WithRetry has returned, the operation has been invoked at least
\* once, whatever maxRetries is and whatever the context's state.
C2_InvokedAtLeastOnce ==
  pc = "done" => started >= 1

\* C3: the value WithRetry returns is the context's error or exactly the value
\* the most recent invocation returned (a failure, or nil for success).
C3_ResultNotFabricated ==
  pc = "done" =>
    \/ result.kind = "ctx" /\ result.class = ctxErr
    \/ Calls >= 1 /\ result = history[Calls]

C5_NonRetryableReturnsAtOnce ==
  \A i \in 1..Calls :
    (history[i].kind = "structured" /\ ~history[i].retryable) =>
      /\ pc = "done"
      /\ result = history[i]
      /\ Calls = i
      /\ started = i
      /\ Len(waits) = i - 1

C5_Witness ==
  /\ pc = "done"
  /\ Calls = 1
  /\ started = 1
  /\ history[1].kind = "structured"
  /\ ~history[1].retryable
  /\ history[1].retryAfter > 0
  /\ config.MaxRetries >= 1
  /\ result = history[1]
  /\ waits = <<>>

\* C6: a successful invocation ends the call at once (success is returned, no
\* further attempt, no further wait), and WithRetry does not give up before:
\* under a live context it returns after k retryable failures and no success
\* only when k > maxRetries, so a success on invocation k+1 <= maxRetries + 1
\* is reached after exactly k+1 invocations.
C6_SuccessAfterKFailures ==
  /\ \A i \in 1..Calls :
       history[i].kind = "nil" =>
         /\ pc = "done"
         /\ result = NilErr
         /\ Calls = i
         /\ started = i
         /\ Len(waits) = i - 1
         /\ \A j \in 1..Len(waits) : waits[j].end = "timer"
  /\ ( /\ pc = "done"
       /\ ctxErr = "none"
       /\ \A i \in 1..Calls : RetryableFailure(history[i]) )
     => Calls >= 1 + config.MaxRetries

C6_Witness ==
  /\ pc = "done"
  /\ result = NilErr
  /\ config.MaxRetries = 2
  /\ Calls = 3
  /\ history[1].kind = "structured" /\ history[1].retryable
  /\ history[2].kind = "structured" /\ history[2].retryable
  /\ history[3].kind = "nil"

\* C7: when the context becomes done while WithRetry is blocked in a wait
\* (backoff or server-suggested), WithRetry returns the context's error, not
\* the last failure, and the operation is never invoked again.
C7_CancelWhileWaiting ==
  /\ [][(pc = "parked" /\ ctxErr = "none" /\ ctxErr' # "none") =>
          /\ pc' = "done"
          /\ result' = CtxErrValue(ctxErr')
          /\ result' # lastErr
          /\ started' = started]_vars
  /\ [][pc = "done" => (pc' = "done" /\ started' = started /\ result' = result)]_vars

C7_Witness ==
  /\ pc = "done"
  /\ result.kind = "ctx"
  /\ Len(waits) = 2
  /\ waits[1].kind = "retryAfter" /\ waits[1].end = "timer"
  /\ waits[2].kind = "backoff" /\ waits[2].end = "ctx_blocked"
  /\ started = 2

\* C8: after a failure with a retryable structured error whose retryAfter is
\* positive, attempts remaining, the wait begun lasts exactly retryAfter (it is
\* not a backoff wait), and the invocation after a wait runs with the attempt
\* counter advanced by one.
C8_RetryAfterWait ==
  /\ \A i \in 1..Calls :
       ( /\ history[i].kind = "structured"
         /\ history[i].retryable
         /\ history[i].retryAfter > 0
         /\ i - 1 < config.MaxRetries )
       => /\ Len(waits) >= i
          /\ waits[i].kind = "retryAfter"
          /\ waits[i].dur = history[i].retryAfter
          /\ waits[i].attempt = i - 1
          /\ (waits[i].end = "timer" =>
                \/ started >= i + 1
                \/ (pc = "loop" /\ attempt = i))
  /\ (pc = "running" => attempt = started - 1)

C8_Witness ==
  /\ Calls >= 2
  /\ history[1].kind = "structured" /\ history[1].retryable
  /\ history[1].retryAfter > config.MaxDelay
  /\ config.MaxDelay > 0
  /\ waits[1].kind = "retryAfter" /\ waits[1].end = "timer"
  /\ waits[1].dur = history[1].retryAfter

\* C9: a validation error, a non-retryable provider error, a caller
\* cancellation or a decode error returned by the wrapped client call is the
\* last invocation: no second invocation is made after it and no retry attempt
\* is consumed.
C9_OnlyRetryableApiAndNetworkRetried ==
  \A i \in 1..Calls :
    ( \/ history[i].class \in {"validation", "decode", "cancel"}
      \/ (history[i].kind = "structured" /\ ~history[i].retryable) )
    => /\ started = i
       /\ attempt = i - 1

\* C10: after a failure that is not a structured error, attempts remaining,
\* WithRetry never returns that failure; it begins a backoff wait for the
\* delay of that attempt (min(baseDelay * backoffFactor^attempt, maxDelay),
\* perturbed when jitter is enabled), never a server-suggested one, and
\* invokes the operation again when the wait ends by its timer.
C10_PlainErrorRetriedByBackoff ==
  \A i \in 1..Calls :
    (history[i].kind = "plain" /\ i - 1 < config.MaxRetries) =>
      LET raw == config.BaseDelay * Pow(config.BackoffFactor, i - 1)
          d == IF raw > config.MaxDelay THEN config.MaxDelay ELSE raw
      IN  /\ Len(waits) >= i
          /\ waits[i].kind = "backoff"
          /\ waits[i].attempt = i - 1
          /\ (~config.JitterEnabled => waits[i].dur = d)
          /\ (config.JitterEnabled =>
                10 * (waits[i].dur + 1) > 9 * d /\ 10 * waits[i].dur <= 11 * d)
          /\ ~(pc = "done" /\ result = history[i])
          /\ (waits[i].end = "timer" =>
                \/ started >= i + 1
                \/ (pc = "loop" /\ attempt = i /\ attempt <= config.MaxRetries))

C10_Witness ==
  /\ Calls >= 2
  /\ history[1].kind = "plain"
  /\ waits[1].kind = "backoff"
  /\ waits[1].end = "timer"
  /\ config.JitterEnabled

\* ------------------------------------------------------------------------
\* The pure functions: one call of categorizeError, ParseError,
\* WrapNetworkError, WrapContextError or of a client method, on arguments
\* drawn from the sets below
\* ------------------------------------------------------------------------
StatusCodes == {200, 302, 400, 401, 403, 404, 418, 429, 500, 502, 503, 504, 599}

Bodies ==
  {Body(TRUE, TRUE, c, m, t) : c \in ErrorCodes, m \in {"", "m"}, t \in ErrorTypes}
  \cup {TextBody, EmptyBody}

\* The bodies handed to the client methods
ClientBodies ==
  { TextBody, EmptyBody,
    Body(TRUE, TRUE, "", "", ""),
    Body(TRUE, FALSE, "", "", ""),
    Body(TRUE, TRUE, "invalid_request_error", "m", "invalid_request_error"),
    Body(TRUE, TRUE, "", "m", "insufficient_quota") }

ClientTransports ==
  {Transport("neterr", NoResponse), Transport("readerr", NoResponse),
   Transport("ctxerr", NoResponse)}
  \cup {Transport("resp", Response(st, h, b)) :
          st \in StatusCodes, h \in {"", "5"}, b \in ClientBodies}

\* The attempts and policies calculateDelay is called with
MaxAttempt == 5

DelayPolicies ==
  {RetryConfig(0, b, mx, f, j) :
     b \in {0, 1, 4, 5}, mx \in {0, 6, 10}, f \in {1, 2}, j \in BOOLEAN}

\* The client methods and their arguments
ClientOps ==
  (Ops \ {FnOp})
  \cup {[kind |-> k, req |-> <<>>, urlOk |-> b] :
          k \in {"list", "get", "ping"}, b \in BOOLEAN}

\* ------------------------------------------------------------------------
\* Request logging.  A string built by concatenation is the sequence of its
\* pieces: "Bearer " + apiKey is <<"Bearer ", apiKey>>.
\* ------------------------------------------------------------------------
LogLevelDebug == 0

LogLevelInfo == 1

\* NewLogger(LoggerConfig{Level: level, EnableRequestLog: enableRequestLog})
NewLogger(level, enableRequestLog) ==
  [level |-> level, enableRequestLog |-> enableRequestLog]

\* DefaultLogger()
DefaultLogger == NewLogger(LogLevelInfo, TRUE)

\* func (l *Logger) shouldLog(level LogLevel) bool
shouldLog(l, level) == level >= l.level

\* textproto.CanonicalMIMEHeaderKey, applied by req.Header.Set
CanonicalHeaderKey(k) ==
  CASE k = "HTTP-Referer" -> "Http-Referer"
    [] OTHER -> k

\* Nothing was written to the log
NoRecord == [logged |-> FALSE]

\* Variant: the header name is compared without lower-casing it
LogRequest_CaseSensitive(l, req, body) ==
  IF ~l.enableRequestLog \/ ~shouldLog(l, LogLevelDebug) THEN NoRecord
  ELSE [logged |-> TRUE,
        Method |-> req.Method,
        URL |-> req.URL,
        Headers |-> [k \in DOMAIN req.Header |->
                       IF k = "authorization"
                       THEN <<"Bearer [REDACTED]">>
                       ELSE req.Header[k]],
        Body |-> body]

\* Logger.LogRequest(req, body): the record it writes (method, URL, headers
\* and body; the timestamp is left out), NoRecord when request logging is
\* off or the level is above debug
LogRequest(l, req, body) ==
  IF ~l.enableRequestLog \/ ~shouldLog(l, LogLevelDebug) THEN NoRecord
  ELSE [logged |-> TRUE,
        Method |-> req.Method,
        URL |-> req.URL,
        Headers |-> [k \in DOMAIN req.Header |->
                       IF ToLower(k) = "authorization"
                       THEN <<"Bearer [REDACTED]">>
                       ELSE req.Header[k]],
        Body |-> body]

\* The headers Client.buildRequest sets
RequestHeader(c) ==
  LET required == (CanonicalHeaderKey("Authorization") :> <<"Bearer ", c.apiKey>>)
                  @@ (CanonicalHeaderKey("Content-Type") :> <<"application/json">>)
      referer == IF c.siteURL # ""
                 THEN CanonicalHeaderKey("HTTP-Referer") :> <<c.siteURL>>
                 ELSE <<>>
      title == IF c.siteName # ""
               THEN CanonicalHeaderKey("X-Title") :> <<c.siteName>>
               ELSE <<>>
  IN  required @@ referer @@ title

\* Client.buildRequest(ctx, method, endpoint, body) when the body marshals
\* and the URL parses: the request it returns and the record its call of
\* c.logger.LogRequest writes
buildRequest(c, method, endpoint, body) ==
  LET req == [Method |-> method, URL |-> <<c.baseURL, endpoint>>,
              Header |-> RequestHeader(c)]
  IN  [req |-> req, log |-> LogRequest(c.logger, req, body)]

ApiKeys == {"sk-or-A", "sk-or-B"}

Loggers == {NewLogger(lv, en) : lv \in {LogLevelDebug, LogLevelInfo}, en \in BOOLEAN}

\* The clients, methods and bodies buildRequest is called with
BuildInputs ==
  {[fn |-> "buildRequest", apiKey |-> k, siteURL |-> u, siteName |-> n,
    logger |-> l, call |-> c] :
      k \in ApiKeys, u \in {"", "https://example.org"}, n \in {"", "bot"},
      l \in Loggers,
      c \in {[method |-> "POST", endpoint |-> "/chat/completions",
               body |-> <<ChatReq("m1", <<Msg("user", "hi")>>)>>],
              [method |-> "GET", endpoint |-> "/models", body |-> <<>>]}}

PureInputs ==
  {[fn |-> "categorizeError", statusCode |-> st, errorCode |-> c, errorType |-> t,
    retryAfter |-> h] :
      st \in StatusCodes, c \in ErrorCodes, t \in ErrorTypes, h \in RetryAfterHeaders}
  \cup {[fn |-> "ParseError", resp |-> Response(st, h, b)] :
          st \in StatusCodes, h \in RetryAfterHeaders, b \in Bodies}
  \cup {[fn |-> "WrapNetworkError", cause |-> e] :
          e \in {"connection refused", "i/o timeout"}}
  \cup {[fn |-> "WrapContextError", cause |-> e] :
          e \in {"Canceled", "DeadlineExceeded", "wrapped DeadlineExceeded", "other"}}
  \cup {[fn |-> "IsRetryableError", err |-> e] :
          e \in FnOutcomes \cup {CtxErrValue("Canceled"), PlainErr("network")}}
  \cup {[fn |-> "ClientCall", o |-> o, tr |-> tr] :
          o \in ClientOps, tr \in ClientTransports}
  \cup {[fn |-> "calculateDelay", attempt |-> a, config |-> cfg] :
          a \in (0..MaxAttempt) \cup {FloatMaxExp}, cfg \in DelayPolicies}
  \cup BuildInputs

InitPure ==
  /\ client = NewClient
  /\ threads = NoThreads
  /\ pc = "call"
  /\ input \in PureInputs
  /\ output = NoOutput
  /\ config = NilConfig
  /\ op = FnOp
  /\ ctxErr = "none"
  /\ attempt = 0
  /\ lastErr = NilErr
  /\ result = NilErr
  /\ history = <<>>
  /\ started = 0
  /\ waits = <<>>
  /\ timerFired = FALSE
  /\ requests = 0
  /\ other = NoCall

\* The function named by input returns val
Returns(val) ==
  /\ pc' = "ret"
  /\ output' = [fn |-> input.fn, val |-> val]
  /\ UNCHANGED <<config, op, ctxErr, attempt, lastErr, result, history, started,
                 waits, timerFired, requests, other, input, client, threads>>

CallCategorizeError ==
  /\ pc = "call"
  /\ input.fn = "categorizeError"
  /\ Returns(categorizeError(input.statusCode, input.errorCode, input.errorType,
                             input.retryAfter))

CallParseError ==
  /\ pc = "call"
  /\ input.fn = "ParseError"
  /\ Returns(ParseError(input.resp))

CallWrapNetworkError ==
  /\ pc = "call"
  /\ input.fn = "WrapNetworkError"
  /\ Returns(WrapNetworkError(input.cause))

CallWrapContextError ==
  /\ pc = "call"
  /\ input.fn = "WrapContextError"
  /\ Returns(WrapContextError(input.cause))

CallClient ==
  /\ pc = "call"
  /\ input.fn = "ClientCall"
  /\ Returns(ClientCall(input.o, input.tr))

CallIsRetryableError ==
  /\ pc = "call"
  /\ input.fn = "IsRetryableError"
  /\ Returns(IsRetryableError(input.err))

\* After a first classification, categorizeError is called again with the
\* same status code, error code and error type and any Retry-After header;
\* other keeps the first call
CallAgain ==
  /\ pc = "ret"
  /\ input.fn = "categorizeError"
  /\ other.pc = "none"
  /\ other' = [pc |-> "returned", input |-> input, output |-> output]
  /\ \E h \in RetryAfterHeaders : input' = [input EXCEPT !.retryAfter = h]
  /\ output' = NoOutput
  /\ pc' = "call"
  /\ UNCHANGED <<config, op, ctxErr, attempt, lastErr, result, history, started,
                 waits, timerFired, requests, client, threads>>

\* buildRequest is called by a client with the fields of the input
CallBuildRequest ==
  /\ pc = "call"
  /\ input.fn = "buildRequest"
  /\ LET c == [ClientFields(input.siteURL, input.siteName, input.logger)
                 EXCEPT !.apiKey = input.apiKey]
     IN  Returns(buildRequest(c, input.call.method, input.call.endpoint,
                              input.call.body))

\* The same request is built again by a client with another API key
CallBuildRequestAgain ==
  /\ pc = "ret"
  /\ input.fn = "buildRequest"
  /\ other.pc = "none"
  /\ other' = [pc |-> "returned", input |-> input, output |-> output]
  /\ \E k \in ApiKeys \ {input.apiKey} : input' = [input EXCEPT !.apiKey = k]
  /\ output' = NoOutput
  /\ pc' = "call"
  /\ UNCHANGED <<config, op, ctxErr, attempt, lastErr, result, history, started,
                 waits, timerFired, requests, client, threads>>

CallCalculateDelay ==
  /\ pc = "call"
  /\ input.fn = "calculateDelay"
  /\ \E d \in calculateDelay(input.attempt, input.config) : Returns(d)

NextPure ==
  \/ CallCalculateDelay
  \/ CallCategorizeError
  \/ CallParseError
  \/ CallWrapNetworkError
  \/ CallWrapContextError
  \/ CallClient
  \/ CallIsRetryableError
  \/ CallAgain
  \/ CallBuildRequest
  \/ CallBuildRequestAgain

SpecPure == InitPure /\ [][NextPure]_vars

Returned(fn) == pc = "ret" /\ input.fn = fn

OverrideTypes == {"insufficient_quota", "model_overloaded", "model_unavailable"}

\* ------------------------------------------------------------------------
\* C11: every Structured Error produced by ParseError, WrapNetworkError or
\* WrapContextError satisfies: retryAfter > 0 implies isRetryable.
\* (Does not hold: a 429 or 503 response whose error type is
\* insufficient_quota keeps the table's delay and is not retryable.)
\* ------------------------------------------------------------------------
C11_RetryAfterImpliesRetryable ==
  (pc = "ret" /\ input.fn \in {"ParseError", "WrapNetworkError", "WrapContextError"})
    => (output.val.RetryAfter > 0 => output.val.IsRetryable)

\* ------------------------------------------------------------------------
\* C12: whenever a client method receives a response with status >= 400,
\* whatever the body, its failure is the Structured Error ParseError builds
\* from the response, and no response object is returned.
\* (Does not hold: a body that is not JSON gives a plain error.)
\* ------------------------------------------------------------------------
C12_HttpErrorIsParseError ==
  (Returned("ClientCall") /\ output.val.sent = 1 /\ input.tr.t = "resp"
     /\ input.tr.resp.status >= 400)
    => /\ output.val.err = AsError(ParseError(input.tr.resp), "api")
       /\ ~output.val.hasResp

\* ------------------------------------------------------------------------
\* C13: when the transport fails before any response is received, the
\* client call returns a retryable Structured Error.
\* (Does not hold: the error returned is a plain wrapped error.)
\* ------------------------------------------------------------------------
C13_TransportFailureIsStructured ==
  (Returned("ClientCall") /\ output.val.sent = 1 /\ input.tr.t = "neterr")
    => /\ output.val.err.kind = "structured"
       /\ output.val.err.retryable
       /\ output.val.err.retryAfter = WrapNetworkError("connection refused").RetryAfter

\* ------------------------------------------------------------------------
\* C14: a chat request with an empty model, no messages, or a message with
\* empty role or content, and an image request with an empty prompt, an
\* empty model or a negative n, returns a plain error and no response
\* object, and no HTTP request is sent.
\* ------------------------------------------------------------------------
InvalidChat(r) ==
  \/ r.Model = ""
  \/ r.Messages = <<>>
  \/ \E i \in 1..Len(r.Messages) : r.Messages[i].Role = "" \/ r.Messages[i].Content = ""

InvalidImage(r) == r.Prompt = "" \/ r.Model = "" \/ r.N < 0

C14_InvalidRequestNotSent ==
  (/\ Returned("ClientCall")
   /\ \/ input.o.kind = "chat" /\ InvalidChat(input.o.req)
      \/ input.o.kind = "image" /\ InvalidImage(input.o.req))
    => /\ output.val.err.kind = "plain"
       /\ output.val.err.class = "validation"
       /\ ~output.val.hasResp
       /\ output.val.sent = 0

\* An empty message content, with a transport that would answer 200
C14_Witness ==
  /\ Returned("ClientCall")
  /\ input.o.kind = "chat"
  /\ input.o.req = ChatReq("m1", <<Msg("user", "")>>)
  /\ input.tr.t = "resp"
  /\ input.tr.resp.status = 200
  /\ input.tr.resp.body.asResult
  /\ output.val.sent = 0
  /\ output.val.err.kind = "plain"

\* ------------------------------------------------------------------------
\* C15: for every error code and Retry-After header, and every error type
\* that is not an override type, the classifier returns not retryable with
\* no delay for 400, 401, 403 and 404, and retryable for 429, 500, 502, 503
\* and 504, with a delay of 30 s for 503 and none for 500, 502 and 504.
\* ------------------------------------------------------------------------
C15_PrimaryTable ==
  (Returned("categorizeError") /\ ToLower(input.errorType) \notin OverrideTypes)
    => /\ input.statusCode \in {400, 401, 403, 404}
            => ~output.val.isRetryable /\ output.val.retryAfter = 0
       /\ input.statusCode \in {429, 500, 502, 503, 504} => output.val.isRetryable
       /\ input.statusCode = 503 => output.val.retryAfter = 30 * Second
       /\ input.statusCode \in {500, 502, 504} => output.val.retryAfter = 0

C15_Witness ==
  /\ Returned("categorizeError")
  /\ input.statusCode = 503
  /\ input.errorType = "server_error"
  /\ input.retryAfter = "5"
  /\ output.val.isRetryable
  /\ output.val.retryAfter = 30 * Second

\* ------------------------------------------------------------------------
\* C16: for an error type equal, after lower-casing, to insufficient_quota
\* the classifier returns not retryable at every status code.
\* ------------------------------------------------------------------------
C16_InsufficientQuotaNotRetryable ==
  (Returned("categorizeError") /\ ToLower(input.errorType) = "insufficient_quota")
    => ~output.val.isRetryable

C16_Witness ==
  /\ Returned("categorizeError")
  /\ input.statusCode = 500
  /\ input.errorType = "INSUFFICIENT_QUOTA"
  /\ ~output.val.isRetryable

\* ------------------------------------------------------------------------
\* C17: for error type model_overloaded the classifier returns retryable
\* with a delay of 30 s, and for model_unavailable retryable with a delay
\* of 60 s, at every status code and whatever the Retry-After header holds.
\* ------------------------------------------------------------------------
C17_ModelOverrides ==
  Returned("categorizeError")
    => /\ ToLower(input.errorType) = "model_overloaded"
            => output.val.isRetryable /\ output.val.retryAfter = 30 * Second
       /\ ToLower(input.errorType) = "model_unavailable"
            => output.val.isRetryable /\ output.val.retryAfter = 60 * Second

C17_Witness ==
  /\ Returned("categorizeError")
  /\ input.statusCode = 429
  /\ input.retryAfter = "5"
  /\ input.errorType = "model_overloaded"
  /\ output.val.isRetryable
  /\ output.val.retryAfter = 30 * Second

\* ------------------------------------------------------------------------
\* C18: for status 429 and an error type that is not an override type the
\* classifier returns retryable, with a delay equal to the integer number
\* of seconds of the Retry-After header when it is present and parses, and
\* 60 s otherwise.
\* (Does not hold: the header "0" parses as 0 and the delay is 60 s.)
\* ------------------------------------------------------------------------
C18_RetryAfterHeader ==
  (Returned("categorizeError") /\ input.statusCode = 429
     /\ ToLower(input.errorType) \notin OverrideTypes)
    => /\ output.val.isRetryable
       /\ output.val.retryAfter =
            IF input.retryAfter # "" /\ Atoi(input.retryAfter).ok
            THEN Atoi(input.retryAfter).val * Second
            ELSE 60 * Second

\* ------------------------------------------------------------------------
\* C19: ParseError keeps the response status; with an envelope that has a
\* non-empty message the code, type and message are the envelope's,
\* otherwise the message is the raw body, or the status text for an empty
\* body; isRetryable, userMessage and retryAfter are what the classifier
\* returns for the status, the error's code and type, and the header.
\* ------------------------------------------------------------------------
C19_ParseError ==
  Returned("ParseError")
    => LET resp == input.resp
           out == output.val
           c == categorizeError(resp.status, out.ErrorCode, out.ErrorType, resp.retryAfter)
       IN  /\ out.StatusCode = resp.status
           /\ IF resp.body.asError /\ resp.body.message # ""
              THEN /\ out.ErrorCode = resp.body.code
                   /\ out.ErrorType = resp.body.type
                   /\ out.Message = resp.body.message
              ELSE out.Message = IF resp.body.raw # "" THEN resp.body.raw
                                 ELSE StatusText(resp.status)
           /\ out.IsRetryable = c.isRetryable
           /\ out.UserMessage = c.userMessage
           /\ out.RetryAfter = c.retryAfter

\* The round trip of an invalid_request_error envelope at status 400
C19_Witness ==
  /\ Returned("ParseError")
  /\ input.resp.status = 400
  /\ input.resp.body = Body(TRUE, TRUE, "invalid_request_error", "m", "invalid_request_error")
  /\ output.val.ErrorCode = "invalid_request_error"
  /\ output.val.Message = "m"
  /\ ~output.val.IsRetryable

\* ------------------------------------------------------------------------
\* Two WithRetry calls.  Every variable of WithRetry is a parameter or a
\* local of the function, so each call has its own copy: the running call's
\* copy is in the variables, the copy of the call that is not running is
\* the record other.  Switch hands the processor to the other call.
\* ------------------------------------------------------------------------
TwoMaxRetries == 1

\* The policies of the two calls, one of them with a loop that never runs
TwoPolicies == {RetryConfig(m, 4, 6, 2, FALSE) : m \in (0 - 1)..TwoMaxRetries}

\* The operation of both calls is an arbitrary closure
TwoOps == {FnOp}

\* The parameters and locals of the running call
Locals ==
  [pc |-> pc, config |-> config, op |-> op, ctxErr |-> ctxErr, attempt |-> attempt,
   lastErr |-> lastErr, result |-> result, history |-> history, started |-> started,
   waits |-> waits, timerFired |-> timerFired, requests |-> requests]

\* A call that has not begun
NewCall(cfg, o) ==
  [pc |-> "entry", config |-> cfg, op |-> o, ctxErr |-> "none", attempt |-> 0,
   lastErr |-> NilErr, result |-> NilErr, history |-> <<>>, started |-> 0,
   waits |-> <<>>, timerFired |-> FALSE, requests |-> 0]

InitTwo ==
  /\ client = NewClient
  /\ threads = NoThreads
  /\ pc = "entry"
  /\ config \in TwoPolicies
  /\ op \in TwoOps
  /\ ctxErr = "none"
  /\ attempt = 0
  /\ lastErr = NilErr
  /\ result = NilErr
  /\ history = <<>>
  /\ started = 0
  /\ waits = <<>>
  /\ timerFired = FALSE
  /\ requests = 0
  /\ other \in {NewCall(cfg, o) : cfg \in TwoPolicies, o \in TwoOps}
  /\ input = NoInput
  /\ output = NoOutput

\* Variant: the attempt counter is one variable shared by the two calls
Switch_SharedAttempt ==
  /\ other.pc # "none"
  /\ other' = Locals
  /\ pc' = other.pc
  /\ config' = other.config
  /\ op' = other.op
  /\ ctxErr' = other.ctxErr
  /\ attempt' = attempt
  /\ lastErr' = other.lastErr
  /\ result' = other.result
  /\ history' = other.history
  /\ started' = other.started
  /\ waits' = other.waits
  /\ timerFired' = other.timerFired
  /\ requests' = other.requests
  /\ UNCHANGED <<input, output, client, threads>>

\* The scheduler runs the other call: each call keeps its own locals
Switch ==
  /\ other.pc # "none"
  /\ other' = Locals
  /\ pc' = other.pc
  /\ config' = other.config
  /\ op' = other.op
  /\ ctxErr' = other.ctxErr
  /\ attempt' = other.attempt
  /\ lastErr' = other.lastErr
  /\ result' = other.result
  /\ history' = other.history
  /\ started' = other.started
  /\ waits' = other.waits
  /\ timerFired' = other.timerFired
  /\ requests' = other.requests
  /\ UNCHANGED <<input, output, client, threads>>

NextTwo ==
  \/ Begin
  \/ StartAttempt
  \/ Exhausted
  \/ FnReturns
  \/ SelectPoll
  \/ TimerFires
  \/ Cancel
  \/ Switch

SpecTwo == InitTwo /\ [][NextTwo]_vars

\* The i-th invocation of call L ends the call: success, a non-retryable
\* structured error, or the last attempt its policy allows
Stops(L, i) ==
  \/ L.history[i].kind = "nil"
  \/ L.history[i].kind = "structured" /\ ~L.history[i].retryable
  \/ i = L.config.MaxRetries + 1

\* The number of invocations and the result of a finished call L follow from
\* its own policy, the outcomes of its own invocations and its own context
OwnOutcome(L) ==
  L.pc = "done" =>
    LET n == Len(L.history)
    IN  /\ L.started = n
        /\ L.requests <= n
        /\ \A i \in 1..(n - 1) :
             /\ ~Stops(L, i)
             /\ Len(L.waits) >= i
             /\ L.waits[i].end = "timer"
             /\ L.waits[i].attempt = i - 1
        /\ \A i \in 1..Len(L.waits) :
             /\ i <= n
             /\ L.waits[i].dur \in
                  IF L.history[i].kind = "structured" /\ L.history[i].retryAfter > 0
                  THEN {L.history[i].retryAfter}
                  ELSE calculateDelay(i - 1, L.config)
        /\ IF n = 0
           THEN L.config.MaxRetries < 0 /\ L.result = NilErr
           ELSE IF Stops(L, n)
           THEN L.result = L.history[n] /\ Len(L.waits) = n - 1
           ELSE /\ Len(L.waits) = n
                /\ L.waits[n].end \in {"ctx", "ctx_blocked"}
                /\ L.ctxErr # "none"
                /\ L.result = CtxErrValue(L.ctxErr)

\* ------------------------------------------------------------------------
\* C20: two WithRetry calls share no attempt counter, backoff state or
\* rate-limit memory: under every interleaving the number of invocations
\* and the result of each call are determined by its own policy, its own
\* operation outcomes and its own context.
\* ------------------------------------------------------------------------
C20_CallsIndependent ==
  /\ OwnOutcome(Locals)
  /\ other.pc # "none" => OwnOutcome(other)

\* Both calls have finished: one after two invocations with a Retry-After
\* wait in between, the other cancelled during the backoff after its first
C20_Witness ==
  /\ pc = "done"
  /\ config.MaxRetries = 1
  /\ Len(history) = 2
  /\ Len(waits) = 1
  /\ waits[1].kind = "retryAfter"
  /\ result = history[2]
  /\ other.pc = "done"
  /\ other.config.MaxRetries = 1
  /\ Len(other.history) = 1
  /\ Len(other.waits) = 1
  /\ other.waits[1].kind = "backoff"
  /\ other.result.kind = "ctx"

\* ------------------------------------------------------------------------
\* Goroutines calling the public methods of one Client.  A method is the
\* sequence of its accesses to the fields of the Client, in program order:
\*   [f : the field, w : the access is a write, val : the value written,
\*    ifSet : the access happens only if the value read just before was
\*            not ""]
\* The request methods are followed along the path of a 200 response.
\* ------------------------------------------------------------------------
Read(f) == [f |-> f, w |-> FALSE, val |-> "", ifSet |-> FALSE]

ReadIfSet(f) == [f |-> f, w |-> FALSE, val |-> "", ifSet |-> TRUE]

Write(f, v) == [f |-> f, w |-> TRUE, val |-> v, ifSet |-> FALSE]

\* buildRequest: baseURL, apiKey, siteURL (twice when set), siteName (twice
\* when set), logger.LogRequest
buildRequestAccesses ==
  <<Read("baseURL"), Read("apiKey"), Read("siteURL"), ReadIfSet("siteURL"),
    Read("siteName"), ReadIfSet("siteName"), Read("logger")>>

\* doRequest: httpClient.Do, logger.LogResponse
doRequestAccesses == <<Read("httpClient"), Read("logger")>>

Methods ==
  {"CreateChatCompletion", "CreateImage", "ListModels", "GetModel", "Ping",
   "WithRetry", "SetSiteInfo", "SetLogger"}

Accesses(m) ==
  CASE m = "SetSiteInfo" -> <<Write("siteURL", "u2"), Write("siteName", "n2")>>
    [] m = "SetLogger" -> <<Write("logger", "logger2")>>
    [] m = "WithRetry" -> <<Read("logger")>>
    [] m \in {"ListModels", "GetModel"} -> buildRequestAccesses \o doRequestAccesses
    [] OTHER -> buildRequestAccesses \o doRequestAccesses \o <<Read("logger")>>

MaxThreads == 2

InitClient ==
  /\ client \in {ClientFields(u, n, "logger1") : u \in {"", "u1"}, n \in {"", "n1"}}
  /\ threads \in [1..MaxThreads -> {[m |-> m, i |-> 1, last |-> ""] : m \in Methods}]
  /\ pc = "entry"
  /\ config = NilConfig
  /\ op = FnOp
  /\ ctxErr = "none"
  /\ attempt = 0
  /\ lastErr = NilErr
  /\ result = NilErr
  /\ history = <<>>
  /\ started = 0
  /\ waits = <<>>
  /\ timerFired = FALSE
  /\ requests = 0
  /\ other = NoCall
  /\ input = NoInput
  /\ output = NoOutput

Finished(t) == threads[t].i > Len(Accesses(threads[t].m))

\* The access goroutine t is about to make
NextAccess(t) == Accesses(threads[t].m)[threads[t].i]

\* Goroutine t is about to skip a conditional access
Skips(t) == NextAccess(t).ifSet /\ threads[t].last = ""

\* Goroutine t makes its next access (or skips it)
Step(t) ==
  /\ ~Finished(t)
  /\ LET a == NextAccess(t)
     IN  IF Skips(t)
         THEN /\ threads' = [threads EXCEPT ![t].i = @ + 1]
              /\ UNCHANGED client
         ELSE IF a.w
         THEN /\ client' = [client EXCEPT ![a.f] = a.val]
              /\ threads' = [threads EXCEPT ![t].i = @ + 1]
         ELSE /\ threads' = [threads EXCEPT ![t].i = @ + 1, ![t].last = client[a.f]]
              /\ UNCHANGED client
  /\ UNCHANGED <<pc, config, op, ctxErr, attempt, lastErr, result, history, started,
                 waits, timerFired, requests, other, input, output>>

NextClient == \E t \in 1..MaxThreads : Step(t)

SpecClient == InitClient /\ [][NextClient]_vars

\* Goroutines t and u are about to access the same field, one of them
\* writing it, with nothing ordering the two accesses
Conflict(t, u) ==
  /\ t # u
  /\ ~Finished(t) /\ ~Skips(t)
  /\ ~Finished(u) /\ ~Skips(u)
  /\ NextAccess(t).f = NextAccess(u).f
  /\ NextAccess(t).w \/ NextAccess(u).w

\* ------------------------------------------------------------------------
\* C21: in no interleaving of public Client methods running in parallel on
\* one Client does one method write a field of the Client while another
\* reads or writes the same field.
\* (Does not hold: SetLogger and SetSiteInfo write fields that every other
\* method reads, without synchronisation.)
\* ------------------------------------------------------------------------
C21_NoConflictingAccess ==
  \A t \in DOMAIN threads : \A u \in DOMAIN threads : ~Conflict(t, u)

\* min(v * b^k, mx) for v >= 0 and b >= 1, computed without forming the power
RECURSIVE CappedProduct(_, _, _, _)
CappedProduct(v, b, k, mx) ==
  IF k = 0 \/ v = 0 \/ b = 1 THEN Min(v, mx)
  ELSE IF v > mx THEN mx
  ELSE CappedProduct(v * b, b, k - 1, mx)

\* d = min(baseDelay * backoffFactor^a, maxDelay)
CappedDelay(a, cfg) == CappedProduct(cfg.BaseDelay, cfg.BackoffFactor, a, cfg.MaxDelay)

\* ------------------------------------------------------------------------
\* C22: with jitter disabled and an integer backoffFactor >= 1, the delay
\* computed for attempt a is exactly min(baseDelay * backoffFactor^a,
\* maxDelay) for every a >= 0, so it never exceeds maxDelay.
\* (Does not hold: with baseDelay 0 and backoffFactor 2 the product is
\* 0 * +Inf = NaN from attempt 1024 on, and the conversion of NaN to a
\* duration need not be 0.)
\* ------------------------------------------------------------------------
C22_ExactCappedBackoff ==
  (Returned("calculateDelay") /\ ~input.config.JitterEnabled)
    => /\ output.val = CappedDelay(input.attempt, input.config)
       /\ output.val <= input.config.MaxDelay

\* ------------------------------------------------------------------------
\* C23: with jitter enabled, the delay for attempt a lies in [0.9 d, 1.1 d],
\* d = min(baseDelay * backoffFactor^a, maxDelay).
\* (Does not hold: the perturbed value is truncated to a whole duration, so
\* for d = 5 the delay can be 4 < 4.5; and d can be NaN as under C22.)
\* ------------------------------------------------------------------------
C23_JitterWithinTenPercent ==
  (Returned("calculateDelay") /\ input.config.JitterEnabled)
    => LET d == CappedDelay(input.attempt, input.config)
       IN  9 * d <= 10 * output.val /\ 10 * output.val <= 11 * d

\* ------------------------------------------------------------------------
\* C24: given no policy (nil), WithRetry behaves exactly as with
\* maxRetries 3, baseDelay 1 s, maxDelay 30 s, backoffFactor 2 and jitter
\* enabled: the call continues with that policy, and an operation that
\* always fails retryably is invoked exactly 4 times (unless the context
\* ends a wait).
\* ------------------------------------------------------------------------
DocumentedDefaults == RetryConfig(3, 1 * Second, 30 * Second, 2, TRUE)

C24_NilPolicyIsDefault ==
  /\ [][(pc = "entry" /\ pc' # "entry" /\ config.isNil) => config' = DocumentedDefaults]_vars
  /\ []((/\ pc = "done"
         /\ config = DocumentedDefaults
         /\ result.kind # "ctx"
         /\ \A i \in 1..Len(history) : RetryableFailure(history[i]))
          => Calls = 4 /\ started = 4 /\ result = history[4])

C24_Witness ==
  /\ pc = "done"
  /\ config = DocumentedDefaults
  /\ Calls = 4
  /\ Len(waits) = 3
  /\ \A i \in 1..4 : RetryableFailure(history[i])
  /\ result = history[4]

\* ------------------------------------------------------------------------
\* C25: the classifier is total: for every status code (also below 400),
\* error code, error type and header it returns a complete triple with a
\* non-empty userMessage; hence every Structured Error built by ParseError,
\* WrapNetworkError or WrapContextError has a non-empty userMessage.
\* ------------------------------------------------------------------------
C25_UserMessageNeverEmpty ==
  /\ Returned("categorizeError")
       => /\ DOMAIN output.val = {"isRetryable", "userMessage", "retryAfter"}
          /\ output.val.isRetryable \in BOOLEAN
          /\ output.val.retryAfter \in Int
          /\ output.val.userMessage # ""
  /\ (pc = "ret" /\ input.fn \in {"ParseError", "WrapNetworkError", "WrapContextError"})
       => output.val.UserMessage # ""

C25_Witness ==
  /\ Returned("categorizeError")
  /\ input.statusCode = 200
  /\ input.errorType = ""
  /\ output.val.userMessage = "An unexpected error occurred."

\* ------------------------------------------------------------------------
\* C26: for a status code outside {400, 401, 403, 404, 429, 500, 502, 503,
\* 504} and an error type that is not an override type, the classifier
\* returns retryable if and only if the status code is >= 500, with
\* retryAfter 0.
\* ------------------------------------------------------------------------
C26_DefaultCase ==
  (/\ Returned("categorizeError")
   /\ input.statusCode \notin {400, 401, 403, 404, 429, 500, 502, 503, 504}
   /\ ToLower(input.errorType) \notin OverrideTypes)
    => /\ output.val.isRetryable = (input.statusCode >= 500)
       /\ output.val.retryAfter = 0

C26_Witness ==
  /\ Returned("categorizeError")
  /\ input.statusCode = 418
  /\ input.errorType = "server_error"
  /\ ~output.val.isRetryable
  /\ output.val.retryAfter = 0

\* ------------------------------------------------------------------------
\* C27: WrapContextError gives a Structured Error with errorCode
\* context_error and the given error as cause, retryable if and only if the
\* cause is the deadline-exceeded error; a cancellation is not retryable;
\* the userMessage is the timed-out message exactly in the retryable case
\* and the cancelled message otherwise.
\* ------------------------------------------------------------------------
C27_WrapContextError ==
  Returned("WrapContextError")
    => /\ output.val.ErrorCode = "context_error"
       /\ output.val.OriginalErr = input.cause
       /\ output.val.IsRetryable = (input.cause = "DeadlineExceeded")
       /\ input.cause = "Canceled" => ~output.val.IsRetryable
       /\ output.val.UserMessage =
            IF output.val.IsRetryable THEN "Request timed out. Please try again."
            ELSE "Request was cancelled."

C27_Witness ==
  /\ Returned("WrapContextError")
  /\ input.cause = "DeadlineExceeded"
  /\ output.val.IsRetryable
  /\ output.val.UserMessage = "Request timed out. Please try again."

\* ------------------------------------------------------------------------
\* C28: WrapNetworkError gives, for every cause, a Structured Error with
\* statusCode 0, errorCode network_error, isRetryable true, retryAfter 0, a
\* non-empty userMessage and the original failure as cause, so WithRetry
\* retries it through the exponential backoff, never through a
\* server-suggested delay.
\* ------------------------------------------------------------------------
C28_WrapNetworkError ==
  Returned("WrapNetworkError")
    => /\ output.val.StatusCode = 0
       /\ output.val.ErrorCode = "network_error"
       /\ output.val.IsRetryable
       /\ output.val.RetryAfter = 0
       /\ output.val.UserMessage # ""
       /\ output.val.OriginalErr = input.cause
       /\ ~IsNonRetryable(AsError(output.val, "network"))
       /\ ~UsesRetryAfter(AsError(output.val, "network"))

C28_Witness ==
  /\ Returned("WrapNetworkError")
  /\ input.cause = "connection refused"
  /\ output.val.IsRetryable
  /\ output.val.OriginalErr = "connection refused"

\* ------------------------------------------------------------------------
\* C29: the classifier is a function of (statusCode, errorCode, errorType,
\* Retry-After header): a classification that agrees with an earlier one on
\* these four returns the same triple, and the Retry-After header influences
\* the result only when the status code is 429.
\* ------------------------------------------------------------------------
C29_Deterministic ==
  (Returned("categorizeError") /\ other.pc = "returned")
    => /\ input = other.input => output.val = other.output.val
       /\ input.statusCode # 429 => output.val = other.output.val

\* Two classifications of status 503 with different Retry-After headers
C29_Witness ==
  /\ Returned("categorizeError")
  /\ other.pc = "returned"
  /\ input.statusCode = 503
  /\ input.retryAfter = "5"
  /\ other.input.retryAfter = "60"
  /\ output.val = other.output.val

\* ------------------------------------------------------------------------
\* C30: IsRetryableError(e) is true if and only if e is a Structured Error
\* whose isRetryable flag is true; for a plain error and for nil it is
\* false.
\* ------------------------------------------------------------------------
C30_IsRetryableError ==
  Returned("IsRetryableError")
    => /\ output.val = (input.err.kind = "structured" /\ input.err.retryable)
       /\ input.err.kind \in {"nil", "plain"} => output.val = FALSE

C30_Witness ==
  /\ Returned("IsRetryableError")
  /\ input.err.kind = "plain"
  /\ output.val = FALSE

\* ------------------------------------------------------------------------
\* C31: for status 429 the classifier returns a strictly positive
\* retryAfter for every value of the Retry-After header (absent,
\* non-numeric, zero or negative).
\* ------------------------------------------------------------------------
C31_RateLimitDelayPositive ==
  (Returned("categorizeError") /\ input.statusCode = 429)
    => output.val.retryAfter > 0

\* ------------------------------------------------------------------------
\* C32: within one WithRetry call exactly one wait takes place between two
\* consecutive invocations, none before the first invocation and none after
\* the invocation WithRetry returns from; while an invocation runs, during
\* a wait and once WithRetry has returned, the number of completed waits is
\* the number of invocations minus one.
\* ------------------------------------------------------------------------
CompletedWaits == Cardinality({i \in 1..Len(waits) : waits[i].end = "timer"})

C32_OneWaitBetweenInvocations ==
  /\ \A i \in 1..Len(waits) :
        /\ waits[i].attempt = i - 1
        /\ i <= Calls
        /\ i < Len(waits) => waits[i].end = "timer"
  /\ pc \in {"running", "select", "parked", "done"}
       => CompletedWaits = started - 1
  /\ (pc = "done" /\ result.kind # "ctx") => Len(waits) = Calls - 1

\* ------------------------------------------------------------------------
\* C33: WithRetry terminates.  The goroutine running WithRetry keeps taking
\* its steps, every invocation of the operation returns and every timer
\* started for a wait fires; the context may be cancelled at any time or
\* never.  Then WithRetry eventually returns, and what it returns is
\* success, the last failure or the context's error.
\* ------------------------------------------------------------------------
LivePolicies ==
  {RetryConfig(m, 4, 6, 2, FALSE) : m \in (0 - 1)..MaxMaxRetries}
  \cup {RetryConfig(1, 5, 8, 2, TRUE)}

LiveChatOp ==
  [kind |-> "chat", req |-> ChatReq("m1", <<Msg("user", "hi")>>), urlOk |-> TRUE]

InitLive ==
  /\ client = NewClient
  /\ threads = NoThreads
  /\ pc = "entry"
  /\ \/ config \in LivePolicies /\ op = FnOp
     \/ config = RetryConfig(1, 4, 6, 2, FALSE) /\ op = LiveChatOp
  /\ ctxErr \in CtxStates
  /\ attempt = 0
  /\ lastErr = NilErr
  /\ result = NilErr
  /\ history = <<>>
  /\ started = 0
  /\ waits = <<>>
  /\ timerFired = FALSE
  /\ requests = 0
  /\ other = NoCall
  /\ input = NoInput
  /\ output = NoOutput

\* The goroutine running WithRetry is scheduled again and again
Runs == Begin \/ StartAttempt \/ Exhausted \/ SelectPoll

\* The operation WithRetry has invoked returns
OperationReturns == FnReturns \/ ClientReturns

SpecLive ==
  /\ InitLive
  /\ [][Next]_vars
  /\ WF_vars(Runs)
  /\ WF_vars(OperationReturns)
  /\ WF_vars(TimerFires)

C33_Terminates ==
  /\ <>(pc = "done")
  /\ [](pc = "done" =>
          \/ result.kind = "nil"
          \/ result = lastErr
          \/ (ctxErr # "none" /\ result = CtxErrValue(ctxErr)))

\* WithRetry has returned the last failure after every retry was used
C33_Witness ==
  /\ pc = "done"
  /\ config.MaxRetries = MaxMaxRetries
  /\ started = MaxMaxRetries + 1
  /\ CompletedWaits = MaxMaxRetries
  /\ result.kind # "nil"
  /\ result = lastErr

\* ------------------------------------------------------------------------
\* C34: WithRetry observes cancellation only while waiting.  With a context
\* that is already done the operation is still invoked; the context's
\* error is returned only from a wait; a successful invocation gives
\* success, and a non-retryable failure or the failure of the final attempt
\* is returned as it is, whatever the state of the context.
\* ------------------------------------------------------------------------
C34_CancellationOnlyWhileWaiting ==
  /\ [][(pc = "loop" /\ attempt = 0 /\ ctxErr # "none" /\ pc' # pc)
          => (pc' = "running" /\ started' = 1)]_vars
  /\ []((pc = "done" /\ result.kind = "ctx")
          => /\ Len(waits) >= 1
             /\ waits[Len(waits)].end \in {"ctx", "ctx_blocked"})
  /\ []((pc = "done" /\ Calls >= 1 /\ history[Calls].kind = "nil")
          => result = NilErr)
  /\ []((pc = "done" /\ Calls >= 1
          /\ \/ Calls = config.MaxRetries + 1
             \/ (history[Calls].kind = "structured" /\ ~history[Calls].retryable))
          => result = history[Calls])

\* ------------------------------------------------------------------------
\* C35: a server-suggested wait lasts exactly the retryAfter of the failure
\* before it, neither capped by maxDelay nor jittered, so it can exceed
\* maxDelay; a wait computed by the exponential backoff is at most maxDelay,
\* or maxDelay plus a tenth when jitter is enabled.
\* ------------------------------------------------------------------------
C35_SuggestedWaitUnchanged ==
  \A i \in 1..Len(waits) :
    /\ waits[i].kind = "retryAfter"
         => /\ history[i].retryAfter > 0
            /\ waits[i].dur = history[i].retryAfter
    /\ waits[i].kind = "backoff"
         => IF config.JitterEnabled
            THEN 10 * waits[i].dur <= 11 * config.MaxDelay
            ELSE waits[i].dur <= config.MaxDelay

\* A 429 with Retry-After: 5 returned to a chat call under a policy whose
\* maxDelay is shorter: the wait of 5s has run to its end
C35_Witness ==
  /\ Len(waits) >= 1
  /\ op.kind = "chat"
  /\ config.MaxDelay > 0
  /\ config.MaxDelay < 5 * Second
  /\ waits[1].kind = "retryAfter"
  /\ waits[1].dur = 5 * Second
  /\ waits[1].end = "timer"
  /\ started = 2

\* ------------------------------------------------------------------------
\* C36: when the decoded envelope has an empty message, ParseError leaves
\* errorCode and errorType empty whatever the envelope carried, and the
\* classification is the one of the status code and the Retry-After header
\* alone; at status 500 the error is retryable.
\* ------------------------------------------------------------------------
C36_EmptyMessageDropsCodeAndType ==
  (Returned("ParseError") /\ input.resp.body.asError /\ input.resp.body.message = "")
    => LET resp == input.resp
           out == output.val
           c == categorizeError(resp.status, "", "", resp.retryAfter)
       IN  /\ out.ErrorCode = ""
           /\ out.ErrorType = ""
           /\ out.IsRetryable = c.isRetryable
           /\ out.UserMessage = c.userMessage
           /\ out.RetryAfter = c.retryAfter
           /\ resp.status = 500 => out.IsRetryable

\* An envelope with type insufficient_quota and no message at status 500
C36_Witness ==
  /\ Returned("ParseError")
  /\ input.resp.status = 500
  /\ input.resp.body.asError
  /\ input.resp.body.type = "insufficient_quota"
  /\ input.resp.body.message = ""
  /\ output.val.ErrorType = ""
  /\ output.val.IsRetryable

\* ------------------------------------------------------------------------
\* C37: one call of CreateChatCompletion, CreateImage, ListModels, GetModel
\* or Ping hands exactly one HTTP request to the transport when the request
\* is valid and could be built, and none otherwise, whatever the transport
\* answers.
\* ------------------------------------------------------------------------
C37_AtMostOneRequest ==
  Returned("ClientCall")
    => LET o == input.o
           invalid == \/ o.kind = "chat" /\ InvalidChat(o.req)
                      \/ o.kind = "image" /\ InvalidImage(o.req)
       IN  /\ output.val.sent \in {0, 1}
           /\ output.val.sent = 1 <=> (~invalid /\ o.urlOk)

\* Ping answered with 503: a retryable error is returned after one request
C37_Witness ==
  /\ Returned("ClientCall")
  /\ input.o.kind = "ping"
  /\ input.tr.t = "resp"
  /\ input.tr.resp.status = 503
  /\ output.val.err.kind = "structured"
  /\ output.val.err.retryable
  /\ output.val.sent = 1

\* ------------------------------------------------------------------------
\* C38: the record Logger.LogRequest writes never contains the API key: its
\* Authorization header is "Bearer [REDACTED]" whatever the key, no piece
\* of its URL or of its headers is the key, and the same request built
\* with another API key gives the same record.
\* ------------------------------------------------------------------------
C38_LogRequestRedactsKey ==
  Returned("buildRequest")
    => LET log == output.val.log
       IN  /\ log.logged
                => /\ log.Headers["Authorization"] = <<"Bearer [REDACTED]">>
                   /\ \A k \in DOMAIN log.Headers :
                        \A i \in 1..Len(log.Headers[k]) :
                          log.Headers[k][i] \notin ApiKeys
                   /\ \A i \in 1..Len(log.URL) : log.URL[i] \notin ApiKeys
           /\ other.pc = "returned" => log = other.output.val.log

\* Two POST requests with different keys were logged at debug level: the
\* requests carry their keys and the two records are equal
C38_Witness ==
  /\ Returned("buildRequest")
  /\ other.pc = "returned"
  /\ input.apiKey # other.input.apiKey
  /\ input.call.method = "POST"
  /\ input.siteURL # ""
  /\ output.val.req.Header["Authorization"] = <<"Bearer ", input.apiKey>>
  /\ other.output.val.req.Header["Authorization"] = <<"Bearer ", other.input.apiKey>>
  /\ output.val.log.logged
  /\ output.val.log = other.output.val.log

====
